---- MODULE Spec2Model ----
(***************************************************************************)
(* Model of src/src/kernel/patches.c (LilithOS kernel patches): the static *)
(* patch table, apply_kernel_patches and verify_kernel_patches, run        *)
(* against a target address space that is observed by a memory-access     *)
(* monitor.                                                                *)
(*                                                                         *)
(* 32-bit words are pairs <<high half, low half>> of 16-bit numbers, so    *)
(* that 0xE3500000 and 0x87654321 keep their value.                        *)
(***************************************************************************)
EXTENDS Integers, Sequences, FiniteSets, TLC

VARIABLES
    patches,    \* static struct kernel_patch patches[] (the table in use)
    mem,        \* target address space: address -> word or Unmapped
    log,        \* stdout: the lines printf has written, oldest first
    accesses,   \* memory-access monitor: read/write events into mem
    pc,         \* "idle" | "apply_loop": where the single thread stands
    i,          \* the loop variable of apply_kernel_patches
    entry,      \* Len(log) when the running call was entered
    calls,      \* the calls that have returned: [fn, ret, lines]
    patches0,   \* the table as it was initially
    mem0        \* the address space as it was initially

vars == <<patches, mem, log, accesses, pc, i, entry, calls, patches0, mem0>>

\* ------------------------------------------------------------------ bounds

\* Calls to the two entry points in one run.
MaxCalls == 3

\* Descriptors in a patch table.
MaxTable == 3

\* ------------------------------------------------------------- 32-bit words

W(hi, lo) == <<hi, lo>>

\* a <= b on 32-bit words
WordLE(a, b) == a[1] < b[1] \/ (a[1] = b[1] /\ a[2] <= b[2])

\* a + b modulo 2^32
WordAdd(a, b) ==
    LET lo == a[2] + b[2]
        hi == a[1] + b[1] + (lo \div 65536)
    IN  W(hi % 65536, lo % 65536)

\* ------------------------------------------------------- program constants

KERNEL_BASE == W(\h8000, \h1000)
KERNEL_SIZE == W(\h1000, \h0000)

KERN_SUCCESS == 0

\* The three entries of patches[].
SamplePatches ==
    << [offset |-> W(\h1234, \h5678), original |-> W(\hE350, \h0000),
        patched |-> W(\hE3A0, \h0000), description |-> "Disable code signing"],
       [offset |-> W(\h8765, \h4321), original |-> W(\hE350, \h0001),
        patched |-> W(\hE3A0, \h0001), description |-> "Enable custom entitlements"],
       [offset |-> W(\h1122, \h3344), original |-> W(\hE350, \h0002),
        patched |-> W(\hE3A0, \h0002), description |-> "Modify sandbox restrictions"] >>

\* sizeof(patches) / sizeof(patches[0])
NPatches(tbl) == Len(tbl)

\* ------------------------------------------------------ the address space

Unmapped == <<>>
Junk == W(\hDEAD, \hBEEF)

Addresses == {SamplePatches[k].offset : k \in 1..Len(SamplePatches)} \cup {KERNEL_BASE}

InKernelRange(a) == WordLE(KERNEL_BASE, a) /\ WordLE(a, WordAdd(KERNEL_BASE, KERNEL_SIZE))

\* What an address may hold: the original or the patched word of a descriptor
\* aimed at it, some other word, or nothing.
Contents(a) ==
    {SamplePatches[k].original : k \in {n \in 1..Len(SamplePatches) : SamplePatches[n].offset = a}}
    \cup {SamplePatches[k].patched : k \in {n \in 1..Len(SamplePatches) : SamplePatches[n].offset = a}}
    \cup {Junk, Unmapped}

Memories == {m \in [Addresses -> UNION {Contents(a) : a \in Addresses}] :
                \A a \in Addresses : m[a] \in Contents(a)}

\* The tables: every sequence of at most MaxTable of the sample descriptors,
\* repeats allowed, the empty table and the table of the source among them.
Tables == UNION {[1..n -> 1..Len(SamplePatches)] : n \in 0..MaxTable}

TableOf(t) == [k \in DOMAIN t |-> SamplePatches[t[k]]]

\* ------------------------------------------------- apply_kernel_patches

\* printf("Applied patch: %s\n", patch->description)
printf_applied(description) == "Applied patch: " \o description \o "\n"

\* Mutant: the loop stops one descriptor early.
LoopCond_OffByOne(idx, n) == idx < n - 1

\* Mutant: a flag set by the first call makes later calls skip the loop.
LoopCond_AppliedOnce(idx, n) ==
    idx < n /\ \A c \in 1..Len(calls) : calls[c].fn # "apply"

\* i < sizeof(patches) / sizeof(patches[0])
LoopCond(idx, n) == idx < n

\* Mutant: the table is walked from its end.
PatchAt_FromEnd(tbl, idx) == Len(tbl) - idx

\* struct kernel_patch *patch = &patches[i]: the pointer, as the position
\* in the table (from 1) of the entry it points at
PatchAt(tbl, idx) == idx + 1

\* Mutant: the body reads the live word at the descriptor's offset.
PatchBody_Reads(patch, m) ==
    [out      |-> <<printf_applied(patch.description)>>,
     patch    |-> patch,
     mem      |-> m,
     accesses |-> <<[kind |-> "read", addr |-> patch.offset, value |-> m[patch.offset]]>>]

\* Mutant: the body records the patch as applied in the table entry itself.
PatchBody_MarksEntry(patch, m) ==
    [out      |-> <<printf_applied(patch.description)>>,
     patch    |-> [patch EXCEPT !.original = patch.patched],
     mem      |-> m,
     accesses |-> <<>>]

\* Mutant: the body stores the patched word without comparing first.
PatchBody_WritesUnchecked(patch, m) ==
    [out      |-> <<printf_applied(patch.description)>>,
     patch    |-> patch,
     mem      |-> [m EXCEPT ![patch.offset] = patch.patched],
     accesses |-> <<[kind |-> "write", addr |-> patch.offset, value |-> patch.patched]>>]

\* The loop body on one descriptor: what it prints, what it leaves in the
\* entry it points at and in memory, and the memory accesses it makes.
PatchBody(patch, m) ==
    [out      |-> <<printf_applied(patch.description)>>,
     patch    |-> patch,
     mem      |-> m,
     accesses |-> <<>>]

\* Mutant: an unmapped target makes the call fail.
apply_return_AccessChecked(tbl, m) ==
    IF \E k \in 1..Len(tbl) : m[tbl[k].offset] = <<>>
    THEN KERN_SUCCESS + 1 ELSE KERN_SUCCESS

\* return KERN_SUCCESS
apply_return(tbl, m) == KERN_SUCCESS

\* ------------------------------------------------- verify_kernel_patches

\* Mutant: a target holding neither word makes verification fail.
verify_kernel_patches_Checked(tbl, m) ==
    [ret      |-> IF \E k \in 1..Len(tbl) :
                        m[tbl[k].offset] # tbl[k].original /\ m[tbl[k].offset] # tbl[k].patched
                  THEN KERN_SUCCESS + 1 ELSE KERN_SUCCESS,
     out      |-> <<>>,
     mem      |-> m,
     accesses |-> <<>>]

\* return KERN_SUCCESS, nothing read and nothing printed before it
verify_kernel_patches(tbl, m) ==
    [ret      |-> KERN_SUCCESS,
     out      |-> <<>>,
     mem      |-> m,
     accesses |-> <<>>]

\* ----------------------------------------------------------------- actions

Init ==
    /\ patches \in {TableOf(t) : t \in Tables}
    /\ mem \in Memories
    /\ log = <<>>
    /\ accesses = <<>>
    /\ pc = "idle"
    /\ i = 0
    /\ entry = 0
    /\ calls = <<>>
    /\ patches0 = patches
    /\ mem0 = mem

\* apply_kernel_patches is entered: int i = 0
ApplyCall ==
    /\ pc = "idle"
    /\ Len(calls) < MaxCalls
    /\ pc' = "apply_loop"
    /\ i' = 0
    /\ entry' = Len(log)
    /\ UNCHANGED <<patches, mem, log, accesses, calls, patches0, mem0>>

\* one iteration of the for loop, i++ included
ApplyIterate ==
    /\ pc = "apply_loop"
    /\ LoopCond(i, NPatches(patches))
    /\ LET patch == PatchAt(patches, i)
           r == PatchBody(patches[patch], mem)
       IN  /\ log' = log \o r.out
           /\ patches' = [patches EXCEPT ![patch] = r.patch]
           /\ mem' = r.mem
           /\ accesses' = accesses \o r.accesses
    /\ i' = i + 1
    /\ UNCHANGED <<pc, entry, calls, patches0, mem0>>

\* the loop condition fails: return KERN_SUCCESS
ApplyReturn ==
    /\ pc = "apply_loop"
    /\ ~LoopCond(i, NPatches(patches))
    /\ calls' = Append(calls, [fn    |-> "apply",
                               ret   |-> apply_return(patches, mem),
                               lines |-> Len(log) - entry])
    /\ pc' = "idle"
    /\ UNCHANGED <<patches, mem, log, accesses, i, entry, patches0, mem0>>

\* verify_kernel_patches, whole
Verify ==
    /\ pc = "idle"
    /\ Len(calls) < MaxCalls
    /\ LET r == verify_kernel_patches(patches, mem)
       IN  /\ calls' = Append(calls, [fn    |-> "verify",
                                      ret   |-> r.ret,
                                      lines |-> Len(r.out)])
           /\ log' = log \o r.out
           /\ mem' = r.mem
           /\ accesses' = accesses \o r.accesses
    /\ UNCHANGED <<patches, pc, i, entry, patches0, mem0>>

Next == ApplyCall \/ ApplyIterate \/ ApplyReturn \/ Verify

Spec == Init /\ [][Next]_vars

\* A call, once entered, runs to its return: the execution is single-threaded
\* and synchronous, with nothing in the loop that blocks.
FairSpec == Spec /\ WF_vars(ApplyIterate) /\ WF_vars(ApplyReturn)

\* ------------------------------------------------------------ observations

\* The descriptors the last entered call of apply_kernel_patches has processed.
Processed == 1..i

\* The number of calls of fn that have returned.
Returned(fn) == Cardinality({k \in 1..Len(calls) : calls[k].fn = fn})

\* The lines one call of apply_kernel_patches is expected to print for tbl.
LinesOf(tbl) == [k \in 1..Len(tbl) |-> printf_applied(tbl[k].description)]

\* The log a sequence of returned calls is expected to leave, from the table
\* and the calls' names alone.
RECURSIVE ObservedLog(_, _)
ObservedLog(tbl, cs) ==
    IF cs = <<>> THEN <<>>
    ELSE ObservedLog(tbl, SubSeq(cs, 1, Len(cs) - 1))
         \o (IF cs[Len(cs)].fn = "apply" THEN LinesOf(tbl) ELSE <<>>)

\* The descriptor's target is mapped and holds neither its original nor its
\* patched word.
Corrupt(p, m) ==
    m[p.offset] # Unmapped /\ m[p.offset] # p.original /\ m[p.offset] # p.patched

\* The descriptor's target does not hold its original word.
Drifted(p, m) == m[p.offset] # p.original

\* ------------------------------------------------------------------- C1

\* C1: every call of apply_kernel_patches over a table of N descriptors
\* (N = 0 included) that has been entered returns, and each returned call
\* has printed exactly N lines and returned KERN_SUCCESS.
C1_ApplyPrintsNAndSucceeds ==
    /\ [](\A k \in 1..Len(calls) :
            calls[k].fn = "apply" =>
                calls[k].lines = NPatches(patches) /\ calls[k].ret = KERN_SUCCESS)
    /\ (pc = "apply_loop") ~> (pc = "idle")

C1_Witness ==
    /\ pc = "idle"
    /\ NPatches(patches) = 3
    /\ Len(calls) = 1
    /\ calls[1] = [fn |-> "apply", ret |-> KERN_SUCCESS, lines |-> 3]

\* ------------------------------------------------------------------- C2

\* C2: the lines of a call of apply_kernel_patches appear in table order:
\* after i iterations the log holds, from the call's entry on, exactly the
\* lines of descriptors 1..i in that order, none repeated or skipped; for the
\* table of the source the first call leaves the three lines of the source.
C2_LogInTableOrder ==
    /\ Len(log) = entry + i
    /\ \A k \in Processed : log[entry + k] = printf_applied(patches[k].description)
    /\ (patches = SamplePatches /\ entry = 0 /\ i = 3) =>
            log = << "Applied patch: Disable code signing\n",
                     "Applied patch: Enable custom entitlements\n",
                     "Applied patch: Modify sandbox restrictions\n" >>

C2_Witness ==
    /\ patches = SamplePatches
    /\ pc = "idle"
    /\ Len(calls) = 1
    /\ calls[1].fn = "apply"
    /\ Len(log) = 3
    /\ log[1] # log[2] /\ log[2] # log[3]

\* ------------------------------------------------------------------- C3

\* C3: every returned call of verify_kernel_patches returned KERN_SUCCESS and
\* printed no line, whatever the table and the memory hold and whether or
\* not apply_kernel_patches ran before it.
C3_VerifyAlwaysSucceeds ==
    \A k \in 1..Len(calls) :
        calls[k].fn = "verify" => calls[k].ret = KERN_SUCCESS /\ calls[k].lines = 0

C3_Witness ==
    /\ Len(calls) = 3
    /\ calls[1].fn = "verify" /\ calls[2].fn = "apply" /\ calls[3].fn = "verify"
    /\ \E k \in 1..Len(patches) : mem[patches[k].offset] = Unmapped
    /\ \E k \in 1..Len(patches) : Corrupt(patches[k], mem)

\* ------------------------------------------------------------------- C4

\* C4: no call reads or writes target memory: every address holds what it
\* held initially, and the monitor has recorded no access, in the range
\* KERNEL_BASE..KERNEL_BASE+KERNEL_SIZE or elsewhere.
C4_NoMemoryAccess ==
    /\ mem = mem0
    /\ accesses = <<>>
    /\ {k \in 1..Len(accesses) : InKernelRange(accesses[k].addr)} = {}

C4_Witness ==
    /\ pc = "idle"
    /\ Returned("apply") >= 1 /\ Returned("verify") >= 1
    /\ Len(log) = 3
    /\ \E k \in 1..Len(patches) : InKernelRange(patches[k].offset)
    /\ \E k \in 1..Len(patches) : ~InKernelRange(patches[k].offset)

\* ------------------------------------------------------------------- C5

\* C5: the patch table never changes: it has the length and the descriptors
\* it had initially.
C5_TableImmutable ==
    /\ Len(patches) = Len(patches0)
    /\ \A k \in 1..Len(patches) :
        /\ patches[k].offset = patches0[k].offset
        /\ patches[k].original = patches0[k].original
        /\ patches[k].patched = patches0[k].patched
        /\ patches[k].description = patches0[k].description

C5_Witness ==
    /\ pc = "idle"
    /\ Returned("apply") = 2 /\ Returned("verify") = 1
    /\ patches = SamplePatches

\* ------------------------------------------------------------------- C6

\* C6: a step writes a descriptor's patched word to its offset only if the
\* offset held the descriptor's original word right before the step.
C6_WriteOnlyOverOriginal ==
    [][\A n \in (Len(accesses) + 1)..Len(accesses') :
         \A k \in 1..Len(patches) :
            (/\ accesses'[n].kind = "write"
             /\ accesses'[n].addr = patches[k].offset
             /\ accesses'[n].value = patches[k].patched)
            => mem[patches[k].offset] = patches[k].original]_vars

\* A drifted descriptor has been processed and its target is as it was.
C6_Witness ==
    /\ \E k \in Processed :
        /\ Drifted(patches[k], mem0)
        /\ log[entry + k] = printf_applied(patches[k].description)
        /\ mem[patches[k].offset] = mem0[patches[k].offset]
    /\ pc = "idle"

\* ------------------------------------------------------------------- C7

\* C7: whenever "Applied patch: <description>" has been printed for a
\* descriptor, the descriptor's offset holds its patched word (the word was
\* compared with original and written), and a descriptor whose target does
\* not hold original is not reported as applied.
C7_AppliedMeansPatched ==
    \A k \in Processed :
        log[entry + k] = printf_applied(patches[k].description)
            => mem[patches[k].offset] = patches[k].patched

\* ------------------------------------------------------------------- C8

\* C8: verify_kernel_patches has returned KERN_SUCCESS only if every
\* descriptor's offset holds its patched or its original word.
C8_VerifySuccessMeansIntact ==
    \A c \in 1..Len(calls) :
        (calls[c].fn = "verify" /\ calls[c].ret = KERN_SUCCESS)
            => \A k \in 1..Len(patches) : ~Corrupt(patches[k], mem)

\* ------------------------------------------------------------------- C9

\* C9: what the two entry points return and print does not depend on target
\* memory: every returned status is KERN_SUCCESS, and between calls the log
\* is the one the table and the sequence of calls determine.
C9_OutcomeIndependentOfMemory ==
    /\ \A k \in 1..Len(calls) : calls[k].ret = KERN_SUCCESS
    /\ pc = "idle" => log = ObservedLog(patches0, calls)

C9_Witness ==
    /\ pc = "idle"
    /\ patches = SamplePatches
    /\ mem[patches[1].offset] = Unmapped
    /\ mem[patches[2].offset] = Junk
    /\ mem[patches[3].offset] = patches[3].patched
    /\ Returned("apply") >= 1 /\ Returned("verify") >= 1

\* ------------------------------------------------------------------ C10

\* C10: no state is carried between calls: every returned call of
\* apply_kernel_patches printed as many lines and returned the same status
\* as the first one, k returned calls have left k*N lines, each block of N
\* repeating the first, and calls of verify_kernel_patches add nothing.
C10_CallsAreStateless ==
    pc = "idle" =>
        /\ Len(log) = Returned("apply") * NPatches(patches)
        /\ \A n \in 1..Len(log) : log[n] = log[((n - 1) % NPatches(patches)) + 1]
        /\ \A a, b \in 1..Len(calls) :
            (calls[a].fn = "apply" /\ calls[b].fn = "apply")
                => calls[a].ret = calls[b].ret /\ calls[a].lines = calls[b].lines

C10_Witness ==
    /\ pc = "idle"
    /\ Len(calls) = 3
    /\ calls[1].fn = "apply" /\ calls[2].fn = "verify" /\ calls[3].fn = "apply"
    /\ NPatches(patches) = 3
    /\ Len(log) = 6

====
